---- MODULE Spec2Model ----
(***************************************************************************)
(* Model of the fish-bowl ETF strategy (src/fishbowl_strategy.py), of the   *)
(* WeChat delivery pipeline (src/wechat_notifier.py) and of the            *)
(* execute_strategy task that couples them (src/main.py).                  *)
(*                                                                         *)
(* Number representation.  Prices are integers (hundredths of a yuan, so   *)
(* 10.00 is 1000).  Ratios are whole percents (0.15 is 15, 0.3 is 30).     *)
(* The stop_loss field of a position or a signal holds 100 times the stop  *)
(* price, i.e. price * (100 - stop_loss_ratio), so that no division is     *)
(* needed: "close <= stop_loss" reads close * 100 <= stop_loss.  A moving  *)
(* average is kept as the sum of its window; "close > ma" reads            *)
(* close * ma_period > sum.  Arithmetic is exact where the program uses    *)
(* binary floating point.                                                  *)
(***************************************************************************)
EXTENDS Integers, Sequences, FiniteSets, TLC

VARIABLES
    current_positions,    \* FishBowlStrategy.current_positions
    transaction_history,  \* FishBowlStrategy.transaction_history (the ledger)
    call,                 \* inputs of the latest execute_strategy call
    result,               \* what the latest execute_strategy call returned or raised
    today,                \* the calendar day datetime.now() shows to the strategy
    files,                \* data/transactions: the ledger file of each day
    returned,             \* the list the latest call returned, if it was a ledger query
    message_queue,        \* WechatNotifier.message_queue (primary, FIFO)
    retry_queue,          \* WechatNotifier.retry_queue (FIFO)
    running,              \* WechatNotifier.running
    worker,               \* the sending thread: where it is and the message it holds
    trading,              \* what _is_trading_time() answers now
    enq_log,              \* every message add_message put on the primary queue
    send_log,             \* every _send_message call, in order
    task_pc,              \* main's execute_strategy task: where it is
    task_result,          \* its locals stable_result and aggressive_result
    now,                  \* time.time() as the sending thread reads it
    last_send_time,       \* WechatNotifier.last_send_time
    threads,              \* every thread start() has created: where it is, what it holds
    sending_thread,       \* WechatNotifier.sending_thread: the thread it refers to
    callers,              \* the threads that call start() and stop(): where each is
    pending               \* execute_strategy calls under way: where each is, its signal

svars == <<current_positions, transaction_history, call, result,
           today, files, returned>>
nvars == <<message_queue, retry_queue, running, worker, trading, enq_log, send_log>>
tvars == <<task_pc, task_result>>
cvars == <<now, last_send_time>>
kvars == <<threads, sending_thread, callers, pending>>
vars == <<current_positions, transaction_history, call, result,
          today, files, returned,
          message_queue, retry_queue, running, worker, trading, enq_log, send_log,
          task_pc, task_result, now, last_send_time,
          threads, sending_thread, callers, pending>>

----------------------------------------------------------------------------
(* Bounds of the model *)

MaxLedger == 3
MaxMessages == 2
MaxDay == 25
MaxDate == 2
MaxRecords == 2

\* src/wechat_notifier.py line 41: seconds between two primary sends
message_interval == 60

----------------------------------------------------------------------------
(* Configuration: src/fishbowl_strategy.py lines 22-41 *)

Classes == {"stable", "aggressive"}

STRATEGY_PARAMS ==
    [stable     |-> [ma_period |-> 20, confirm_days |-> 3, initial_position |-> 30,
                     stop_loss_ratio |-> 15, tracking_stop_ratio |-> 5,
                     max_position |-> 70],
     aggressive |-> [ma_period |-> 20, confirm_days |-> 2, initial_position |-> 20,
                     stop_loss_ratio |-> 15, tracking_stop_ratio |-> 3,
                     max_position |-> 50]]

FlatPosition == [etf_code |-> "", position |-> 0, avg_price |-> 0, stop_loss |-> 0]

----------------------------------------------------------------------------
(* The external collaborators: candidate pool and quote provider *)

Instruments == {"A", "B"}

\* A pool of one class as get_current_pool() returns it: an ordered list.
PoolChoices == {<<>>, <<"A">>, <<"B">>, <<"A", "B">>, <<"B", "A">>}

Rep(n, v) == [i \in 1..n |-> v]

\* Close series the quote provider may return (oldest first).
QEmpty  == <<>>
QShort  == Rep(19, 900)
QUp     == Rep(19, 900) \o <<1000, 1000, 1000>>
QUpAgg  == Rep(20, 900) \o <<1000, 1000>>
QStale  == <<900, 1000>> \o Rep(17, 900) \o <<1000, 1000, 1000>>
QDown   == Rep(21, 1000) \o <<840>>

Quotes == {QEmpty, QShort, QUp, QUpAgg, QStale, QDown}

NoQuote == <<-1>>   \* marks a provider call that was not made

----------------------------------------------------------------------------
(* pandas helpers *)

RECURSIVE SumRange(_, _, _)
SumRange(s, lo, hi) == IF lo > hi THEN 0 ELSE s[hi] + SumRange(s, lo, hi - 1)

\* close.rolling(window).mean() at row i is NaN for the first window-1 rows
MADefined_OneLate(s, window, i) == i > window /\ i <= Len(s)

\* rolling(window).mean() is NaN before a full window
MADefined(s, window, i) == i >= window /\ i <= Len(s)
MASum(s, window, i) == SumRange(s, i - window + 1, i)

\* close[i] > ma[i]; a comparison with NaN is False
AboveMA(s, window, i) ==
    MADefined(s, window, i) /\ s[i] * window > MASum(s, window, i)

Last(s) == s[Len(s)]

Max2(a, b) == IF a >= b THEN a ELSE b

----------------------------------------------------------------------------
(* list.sort(key=trend_strength, reverse=True) as CPython performs it on a  *)
(* short list: reverse, count the initial run, binary insertion, reverse.   *)
(* The order matters when a key is NaN (every comparison False).            *)

\* x['trend_strength'] < y['trend_strength'], with (price - ma) / ma compared
\* exactly; the ma of both is a sum over the same window length
TrendLT(x, y) == ~x.nan /\ ~y.nan /\ x.price * y.masum < y.price * x.masum

Reverse(s) == [i \in 1..Len(s) |-> s[Len(s) + 1 - i]]

RECURSIVE RunEnd(_, _, _)
RunEnd(a, i, desc) ==
    IF i > Len(a) THEN Len(a)
    ELSE IF TrendLT(a[i], a[i - 1]) = desc THEN RunEnd(a, i + 1, desc)
    ELSE i - 1

RECURSIVE BinSearch(_, _, _, _)
BinSearch(a, pivot, l, r) ==
    IF l >= r THEN l
    ELSE LET p == l + ((r - l) \div 2)
         IN  IF TrendLT(pivot, a[p]) THEN BinSearch(a, pivot, l, p)
             ELSE BinSearch(a, pivot, p + 1, r)

RECURSIVE BinarySort(_, _)
BinarySort(a, start) ==
    IF start > Len(a) THEN a
    ELSE LET pivot == a[start]
             l == BinSearch(a, pivot, 1, start)
             moved == [i \in 1..Len(a) |->
                          IF i < l \/ i > start THEN a[i]
                          ELSE IF i = l THEN pivot
                          ELSE a[i - 1]]
         IN  BinarySort(moved, start + 1)

SortDescending(cands) ==
    IF Len(cands) < 2 THEN cands
    ELSE LET a == Reverse(cands)
             desc == TrendLT(a[2], a[1])
             n == RunEnd(a, 3, desc)
             run == IF desc
                    THEN [i \in 1..Len(a) |-> IF i <= n THEN a[n + 1 - i] ELSE a[i]]
                    ELSE a
         IN  Reverse(BinarySort(run, n + 1))

----------------------------------------------------------------------------
(* Signals.  A signal or a result is a Python dict; keys lists the keys it  *)
(* has, the other fields hold a default.  action "RAISE" stands for an      *)
(* exception leaving the function, reason naming it.                        *)

NoRatio == <<0, 1>>

Signal(action, reason, etf_code, position, price, stop_loss, ratio, keys) ==
    [action |-> action, reason |-> reason, etf_code |-> etf_code,
     position |-> position, price |-> price, stop_loss |-> stop_loss,
     profit_ratio |-> ratio, keys |-> keys]

HoldSignal(reason, etf_code, position) ==
    Signal("HOLD", reason, etf_code, position, 0, 0, NoRatio,
           {"action", "reason", "etf_code", "position"})

Raise(exception) == Signal("RAISE", exception, "", 0, 0, 0, NoRatio, {})

\* _select_best_etf, lines 134-161: quotes[i] is what get_etf_quote returned
\* for etf_pool[i]; the result is the chosen etf_code, "" standing for None
SelectBestETF(etf_pool, quotes) ==
    LET hasData == {i \in 1..Len(etf_pool) : quotes[i] # QEmpty}
        Cand(i) == [etf_code |-> etf_pool[i],
                    nan |-> Len(quotes[i]) < 20,
                    price |-> Last(quotes[i]),
                    masum |-> IF Len(quotes[i]) < 20 THEN 0
                              ELSE MASum(quotes[i], 20, Len(quotes[i]))]
        RECURSIVE Collect(_)
        Collect(i) == IF i > Len(etf_pool) THEN <<>>
                      ELSE IF i \in hasData THEN <<Cand(i)>> \o Collect(i + 1)
                      ELSE Collect(i + 1)
        candidates == Collect(1)
    IN  IF candidates = <<>> THEN "" ELSE SortDescending(candidates)[1].etf_code

CheckBuySignal_LastDayOnly(etf_code, params, quote_df) ==
    IF Len(quote_df) < params.ma_period
    THEN HoldSignal("insufficient data", etf_code, 0)
    ELSE LET n == Len(quote_df)
             w == params.ma_period
             price_break == AboveMA(quote_df, w, n)
             ma_trend == /\ MADefined(quote_df, w, n - 1)
                         /\ MASum(quote_df, w, n) > MASum(quote_df, w, n - 1)
         IN  IF price_break /\ ma_trend
             THEN Signal("BUY", "stands above MA", etf_code,
                         params.initial_position, quote_df[n],
                         quote_df[n] * (100 - params.stop_loss_ratio), NoRatio,
                         {"action", "reason", "etf_code", "etf_name", "position",
                          "price", "stop_loss"})
             ELSE HoldSignal("not above MA or trend unconfirmed", etf_code, 0)

\* _check_buy_signal, lines 163-201
CheckBuySignal(etf_code, params, quote_df) ==
    IF Len(quote_df) < params.ma_period
    THEN HoldSignal("insufficient data", etf_code, 0)
    ELSE LET n == Len(quote_df)
             w == params.ma_period
             price_break == \A i \in (n - params.confirm_days + 1)..n :
                                AboveMA(quote_df, w, i)
             ma_trend == /\ MADefined(quote_df, w, n - 1)
                         /\ MASum(quote_df, w, n) > MASum(quote_df, w, n - 1)
         IN  IF price_break /\ ma_trend
             THEN Signal("BUY", "stands above MA", etf_code,
                         params.initial_position, quote_df[n],
                         quote_df[n] * (100 - params.stop_loss_ratio), NoRatio,
                         {"action", "reason", "etf_code", "etf_name", "position",
                          "price", "stop_loss"})
             ELSE HoldSignal("not above MA or trend unconfirmed", etf_code, 0)

\* The three sell conditions of _check_sell_signal, in the order of the code.
\* Fixed stop-loss, line 215
FixedStopHit(current_pos, quote_df) == Last(quote_df) * 100 <= current_pos.stop_loss

MABreakdown_WholeWindow(params, quote_df) ==
    LET n == Len(quote_df)
        w == params.ma_period
        first == Max2(1, n - params.confirm_days + 1)
    IN  /\ MADefined(quote_df, w, n)
        /\ quote_df[n] * w < MASum(quote_df, w, n)
        /\ \A i \in first..n : quote_df[i] * w < MASum(quote_df, w, n)

\* Moving-average breakdown, lines 226-227 (ma is NaN on a short series)
MABreakdown(params, quote_df) ==
    LET n == Len(quote_df)
        w == params.ma_period
        first == Max2(1, n - params.confirm_days + 1)
    IN  /\ MADefined(quote_df, w, n)
        /\ quote_df[n] * w < MASum(quote_df, w, n)
        /\ \E i \in first..n : quote_df[i] * w < MASum(quote_df, w, n)

\* Trailing stop, lines 238-240: the prices of the BUY transactions of the
\* instrument, whatever their strategy_type
BuyPrices(history, etf_code) ==
    {history[i].price : i \in {j \in 1..Len(history) :
        history[j].etf_code = etf_code /\ history[j].action = "BUY"}}

SetMax(S) == CHOOSE x \in S : \A y \in S : x >= y

TrailingStopHit(history, etf_code, params, quote_df) ==
    SetMax(BuyPrices(history, etf_code)) * (100 - params.tracking_stop_ratio)
        > Last(quote_df) * 100

\* _check_sell_signal from line 214 on, for a given current_pos (max() of an
\* empty list raises ValueError)
SellDecision(current_pos, history, etf_code, params, quote_df) ==
    LET current_price == Last(quote_df)
        ratio == <<current_price - current_pos.avg_price, current_pos.avg_price>>
    IN  IF FixedStopHit(current_pos, quote_df)
        THEN Signal("SELL", "fixed stop-loss", etf_code, 0, current_price, 0, ratio,
                    {"action", "reason", "etf_code", "position", "price",
                     "loss_ratio"})
        ELSE IF MABreakdown(params, quote_df)
        THEN Signal("SELL", "MA breakdown", etf_code, 0, current_price, 0, ratio,
                    {"action", "reason", "etf_code", "position", "price",
                     "profit_ratio"})
        ELSE IF BuyPrices(history, etf_code) = {}
        THEN Raise("ValueError")
        ELSE IF TrailingStopHit(history, etf_code, params, quote_df)
        THEN Signal("SELL", "trailing stop", etf_code, 0, current_price, 0, ratio,
                    {"action", "reason", "etf_code", "position", "price",
                     "profit_ratio"})
        ELSE HoldSignal("no sell condition", etf_code, current_pos.position)

\* _check_sell_signal, lines 203-212.  Line 212 reads self.current_positions
\* [pool_type], and pool_type is neither a parameter nor a local nor a module
\* global: with a non-empty quote the function raises NameError there and
\* never reaches line 214.
CheckSellSignal(etf_code, params, quote_df) ==
    IF quote_df = QEmpty
    THEN HoldSignal("insufficient data", etf_code, 0)
    ELSE Raise("NameError")

GenerateSignals_PoolUnchecked(positions, pool_type, pool, qs, qp, qb) ==
    LET params == STRATEGY_PARAMS[pool_type]
        current_pos == positions[pool_type]
        sell == IF current_pos.position > 0
                THEN CheckSellSignal(current_pos.etf_code, params, qs)
                ELSE HoldSignal("flat", "", 0)
        best_etf == SelectBestETF(pool, qp)
        buy_signal == CheckBuySignal(best_etf, params, qb)
    IN  IF sell.action \in {"SELL", "RAISE"} THEN sell
        ELSE IF best_etf = "" THEN HoldSignal("no eligible ETF", "", 0)
        ELSE IF buy_signal.action = "BUY" THEN buy_signal
        ELSE HoldSignal("no signal", "", 0)

\* generate_signals, lines 98-132.  pool is stock_pool[pool_type]; qs, qp and
\* qb are the answers of the quote provider to the sell check, to
\* _select_best_etf (one per pool entry) and to the buy check
GenerateSignals(positions, pool_type, pool, qs, qp, qb) ==
    IF Len(pool) = 0 THEN HoldSignal("pool empty", "", 0)
    ELSE LET params == STRATEGY_PARAMS[pool_type]
             current_pos == positions[pool_type]
             sell == IF current_pos.position > 0
                     THEN CheckSellSignal(current_pos.etf_code, params, qs)
                     ELSE HoldSignal("flat", "", 0)
             best_etf == SelectBestETF(pool, qp)
             buy_signal == CheckBuySignal(best_etf, params, qb)
         IN  IF sell.action \in {"SELL", "RAISE"} THEN sell
             ELSE IF best_etf = "" THEN HoldSignal("no eligible ETF", "", 0)
             ELSE IF buy_signal.action = "BUY" THEN buy_signal
             ELSE HoldSignal("no signal", "", 0)

----------------------------------------------------------------------------
(* Execution.  An outcome is the state a call leaves plus what it returned: *)
(* status "raised" stands for an exception leaving the call.                *)

Result(status, action, message, etf_code, price, position, ratio, keys) ==
    [status |-> status, action |-> action, message |-> message,
     etf_code |-> etf_code, price |-> price, position |-> position,
     profit_ratio |-> ratio, keys |-> keys]

Raised(exception) == Result("raised", "", exception, "", 0, 0, NoRatio, {})

NoResult == Result("none", "", "", "", 0, 0, NoRatio, {})

Outcome(positions, history, res) ==
    [positions |-> positions, history |-> history, result |-> res]

Transaction(action, etf_code, price, position, reason, ratio, pool_type) ==
    [action |-> action, etf_code |-> etf_code, price |-> price,
     position |-> position, reason |-> reason, profit_ratio |-> ratio,
     strategy_type |-> pool_type]

\* the calendar days of the model; a file name sorts as its day does
Dates == 1..MaxDate

\* no file of that day in data/transactions
NoFile == <<>>

\* _save_transaction line 87: the record gets the timestamp of the clock
Stamped(transaction) ==
    [f \in (DOMAIN transaction) \cup {"timestamp"} |->
        IF f = "timestamp" THEN today ELSE transaction[f]]

SaveTransaction_Lost(history, transaction) == history

SaveTransaction_Twice(history, transaction) ==
    Append(Append(history, Stamped(transaction)), Stamped(transaction))

\* _save_transaction, lines 85-88: the in-memory ledger after the append (the
\* storage is taken to be available)
SaveTransaction(history, transaction) == Append(history, Stamped(transaction))

WriteLog_TodayOnly(fs, history) ==
    [fs EXCEPT ![today] = SelectSeq(history, LAMBDA t : t.timestamp = today)]

\* _save_transaction, lines 91-95: the whole in-memory ledger is dumped into
\* the file of the day, replacing what the file held
WriteLog(fs, history) == [fs EXCEPT ![today] = history]

\* the files after a call that left the ledger as history: every append of
\* the call was followed by a dump, the last of which stays
StoreAfter(history) ==
    IF history = transaction_history THEN files ELSE WriteLog(files, history)

ExecuteSell_Unchecked(positions, history, signal, pool_type) ==
    Outcome([positions EXCEPT ![pool_type] = FlatPosition],
            SaveTransaction(history,
                Transaction("SELL", signal.etf_code, signal.price,
                            positions[pool_type].position, signal.reason,
                            NoRatio, pool_type)),
            Result("success", "SELL", signal.reason, signal.etf_code,
                   signal.price, 0, NoRatio,
                   {"status", "action", "message", "etf_code", "price",
                    "profit_ratio"}))

\* _execute_sell, lines 317-352.  The transaction dict of line 327 reads
\* signal['price'] and signal['reason'] before anything is changed
ExecuteSell(positions, history, signal, pool_type) ==
    LET current_pos == positions[pool_type]
    IN  IF current_pos.etf_code # signal.etf_code
        THEN Outcome(positions, history,
                     Result("error", "SELL", "position mismatch", signal.etf_code,
                            0, 0, NoRatio,
                            {"status", "action", "message", "etf_code"}))
        ELSE IF ~({"price", "reason"} \subseteq signal.keys)
        THEN Outcome(positions, history, Raised("KeyError"))
        ELSE LET profit_ratio == IF "profit_ratio" \in signal.keys
                                 THEN signal.profit_ratio ELSE NoRatio
             IN  Outcome([positions EXCEPT ![pool_type] = FlatPosition],
                         SaveTransaction(history,
                             Transaction("SELL", signal.etf_code, signal.price,
                                         current_pos.position, signal.reason,
                                         profit_ratio, pool_type)),
                         Result("success", "SELL", signal.reason, signal.etf_code,
                                signal.price, 0, profit_ratio,
                                {"status", "action", "message", "etf_code",
                                 "price", "profit_ratio"}))

BoughtPosition_NoCode(signal) ==
    [etf_code |-> "", position |-> signal.position,
     avg_price |-> signal.price, stop_loss |-> signal.stop_loss]

\* the position an executed BUY records, lines 289-294
BoughtPosition(signal) ==
    [etf_code |-> signal.etf_code, position |-> signal.position,
     avg_price |-> signal.price, stop_loss |-> signal.stop_loss]

ExecuteBuy_Unrecorded(positions, history, signal, pool_type) ==
    Outcome([positions EXCEPT ![pool_type] = BoughtPosition(signal)], history,
            Result("success", "BUY", "buy", signal.etf_code, signal.price,
                   signal.position, NoRatio,
                   {"status", "action", "message", "etf_code", "etf_name",
                    "price", "position"}))

\* _execute_buy, lines 273-315
ExecuteBuy(positions, history, signal, pool_type) ==
    LET current_pos == positions[pool_type]
        rotate == current_pos.position > 0 /\ current_pos.etf_code # signal.etf_code
        sell_result ==
            IF rotate
            THEN ExecuteSell(positions, history,
                             Signal("SELL", "rotation", current_pos.etf_code, 0, 0, 0,
                                    NoRatio,
                                    {"action", "etf_code", "position", "reason"}),
                             pool_type)
            ELSE Outcome(positions, history, NoResult)
    IN  IF rotate /\ sell_result.result.status # "success"
        THEN sell_result
        ELSE Outcome(
                 [sell_result.positions EXCEPT ![pool_type] = BoughtPosition(signal)],
                 SaveTransaction(sell_result.history,
                     Transaction("BUY", signal.etf_code, signal.price,
                                 signal.position, signal.reason, NoRatio, pool_type)),
                 Result("success", "BUY", "buy", signal.etf_code, signal.price,
                        signal.position, NoRatio,
                        {"status", "action", "message", "etf_code", "etf_name",
                         "price", "position"}))

\* execute_strategy, lines 260-271: the signal is acted on
ApplySignal(positions, history, signal, pool_type) ==
    IF signal.action = "RAISE"
    THEN Outcome(positions, history, Raised(signal.reason))
    ELSE IF signal.action = "BUY"
    THEN ExecuteBuy(positions, history, signal, pool_type)
    ELSE IF signal.action = "SELL"
    THEN ExecuteSell(positions, history, signal, pool_type)
    ELSE Outcome(positions, history,
                 Result("success", "HOLD", signal.reason, signal.etf_code, 0,
                        positions[pool_type].position, NoRatio,
                        {"status", "action", "message", "etf_code",
                         "current_position"}))

\* execute_strategy, lines 252-271
ExecuteStrategy(positions, history, pool_type, pool, qs, qp, qb) ==
    ApplySignal(positions, history,
                GenerateSignals(positions, pool_type, pool, qs, qp, qb), pool_type)

----------------------------------------------------------------------------
(* The strategy object under arbitrary callers and provider answers *)

\* The provider calls of one evaluation.  The sell check asks for the held
\* instrument (qs); _select_best_etf asks for every pool entry (q[i]); the buy
\* check asks again for the chosen one and is answered as before.  NoQuote
\* marks a call that is not made.
SellQuotes(positions, pool_type, pool) ==
    IF Len(pool) > 0 /\ positions[pool_type].position > 0 THEN Quotes ELSE {NoQuote}

PoolQuotes(pool, qs) ==
    IF qs \in {NoQuote, QEmpty} THEN [1..Len(pool) -> Quotes] ELSE {<<>>}

IndexOf(pool, etf_code) == CHOOSE i \in 1..Len(pool) : pool[i] = etf_code

BuyQuote(pool, q, best) == IF best = "" THEN NoQuote ELSE q[IndexOf(pool, best)]

NoMessage == [id |-> 0, kind |-> "", pool_type |-> ""]

\* what a call was given beyond quotes: the instrument of a signal handed to
\* _execute_sell, the bounds handed to print_transaction_history (0 for None)
Arg(etf_code, start_date, end_date) ==
    [etf_code |-> etf_code, start_date |-> start_date, end_date |-> end_date]

NoArg == Arg("", 0, 0)

NoCall == [op |-> "", pool_type |-> "", positions |-> [c \in Classes |-> FlatPosition],
           history |-> <<>>, qs |-> NoQuote, best |-> "", qb |-> NoQuote,
           pool_empty |-> FALSE, arg |-> NoArg]

SInit ==
    /\ current_positions = [c \in Classes |-> FlatPosition]
    /\ transaction_history = <<>>
    /\ call = NoCall
    /\ result = NoResult
    /\ today = 1
    /\ files = [d \in Dates |-> NoFile]
    /\ returned = <<>>

\* WechatNotifier.__init__, lines 35-43
NInit ==
    /\ message_queue = <<>>
    /\ retry_queue = <<>>
    /\ running = FALSE
    /\ worker = [pc |-> "none", msg |-> NoMessage]
    /\ trading = FALSE
    /\ enq_log = <<>>
    /\ send_log = <<>>

At(step, pool_type) == [step |-> step, pool_type |-> pool_type]

\* time.time() is far beyond message_interval when the notifier is built;
\* last_send_time starts at 0 (line 40)
CInit ==
    /\ now = message_interval
    /\ last_send_time = 0

TInit ==
    /\ task_pc = At("start", "")
    /\ task_result = [c \in Classes |-> NoResult]

\* the largest number of threads start() creates
MaxThreads == 2

ThreadIds == 1..MaxThreads

\* the application threads that call start() and stop()
Callers == {"c1", "c2"}

\* sending_thread = None (line 38)
NoThread == 0

Thread(pc, msg) == [pc |-> pc, msg |-> msg]

CallerAt(pc, target) == [pc |-> pc, target |-> target]

\* the threads that call execute_strategy at overlapping times
ExecIds == {"e1", "e2"}

\* one execute_strategy call: where it is, its argument, what the provider
\* answers it, and the signal generate_signals gave it
Exec(pc, pool_type, quote, signal) ==
    [pc |-> pc, pool_type |-> pool_type, quote |-> quote, signal |-> signal]

NoExec == Exec("idle", "", NoQuote, HoldSignal("", "", 0))

\* WechatNotifier.__init__, line 38: no thread yet, no call under way
KInit ==
    /\ threads = [t \in ThreadIds |-> Thread("unborn", NoMessage)]
    /\ sending_thread = NoThread
    /\ callers = [c \in Callers |-> CallerAt("idle", NoThread)]
    /\ pending = [e \in ExecIds |-> NoExec]

Init == SInit /\ NInit /\ TInit /\ CInit /\ KInit

\* one execute_strategy(pool_type) call on the strategy object
ExecuteCall(pool_type) ==
    \E pool \in PoolChoices :
    \E qs \in SellQuotes(current_positions, pool_type, pool) :
    \E q \in PoolQuotes(pool, qs) :
    \E best \in {IF Len(q) = 0 THEN "" ELSE SelectBestETF(pool, q)} :
    \E qb \in {BuyQuote(pool, q, best)} :
    \E out \in {ExecuteStrategy(current_positions, transaction_history,
                                   pool_type, pool, qs, q, qb)} :
            /\ Len(out.history) <= MaxLedger
            /\ current_positions' = out.positions
            /\ transaction_history' = out.history
            /\ result' = out.result
            /\ call' = [pool_type |-> pool_type, positions |-> current_positions,
                        history |-> transaction_history, qs |-> qs,
                        best |-> best, qb |-> qb, pool_empty |-> (Len(pool) = 0),
                        op |-> "execute", arg |-> NoArg]
            /\ files' = StoreAfter(out.history)
            /\ returned' = <<>>
            /\ UNCHANGED today

Execute(pool_type) == ExecuteCall(pool_type) /\ UNCHANGED <<nvars, cvars, kvars, tvars>>

Next == \E pool_type \in Classes : Execute(pool_type)

Spec == Init /\ [][Next]_vars

----------------------------------------------------------------------------
(* Properties of the strategy, stated on the latest call and its result *)

CallPos == call.positions[call.pool_type]
CallParams == STRATEGY_PARAMS[call.pool_type]

\* the latest call evaluated a HELD portfolio
HeldCall == call.pool_type # "" /\ CallPos.position > 0

\* ... and its sell check was given a non-empty close series
SellChecked == HeldCall /\ call.qs # NoQuote /\ call.qs # QEmpty

StopCond == FixedStopHit(CallPos, call.qs)
BreakCond == MABreakdown(CallParams, call.qs)
TrailCond ==
    /\ BuyPrices(call.history, CallPos.etf_code) # {}
    /\ TrailingStopHit(call.history, CallPos.etf_code, CallParams, call.qs)

\* the entries the latest call appended to the ledger
Appended ==
    SubSeq(transaction_history, Len(call.history) + 1, Len(transaction_history))

\* C1: for each portfolio class, in every reachable state, the held instrument
\* identifier is empty if and only if the position size is 0.
C1_FlatIffEmpty ==
    \A c \in Classes :
        (current_positions[c].etf_code = "") <=> (current_positions[c].position = 0)

C1_Witness ==
    /\ \A c \in Classes : current_positions[c].position > 0
    /\ \A c \in Classes : current_positions[c].etf_code \in Instruments

\* C2: every execute() call returns a result with status success or error and
\* never ends by raising an exception.
C2_NeverRaises == result.status \in {"none", "success", "error"}

\* C5: a HELD portfolio whose current close is at or below the recorded
\* stop-loss price yields SELL with the fixed stop-loss rationale, whatever
\* the moving average is.
C5_StopLossSells ==
    (SellChecked /\ StopCond)
        => /\ result.status = "success"
           /\ result.action = "SELL"
           /\ result.message = "fixed stop-loss"

\* C6: when two or more of the three sell conditions hold at once, the SELL
\* rationale is that of the first in the order fixed stop-loss, moving-average
\* breakdown, trailing stop.
C6_SellPriority ==
    LET holding == {r \in {"fixed stop-loss", "MA breakdown", "trailing stop"} :
                       \/ r = "fixed stop-loss" /\ StopCond
                       \/ r = "MA breakdown" /\ BreakCond
                       \/ r = "trailing stop" /\ TrailCond}
        first == IF "fixed stop-loss" \in holding THEN "fixed stop-loss"
                 ELSE IF "MA breakdown" \in holding THEN "MA breakdown"
                 ELSE "trailing stop"
    IN  (SellChecked /\ Cardinality(holding) >= 2)
            => result.action = "SELL" /\ result.message = first

\* C7: a BUY is produced only if the close of the chosen instrument was
\* strictly above the moving average on each of the last confirm_days sessions
\* and the latest moving-average value is strictly greater than the previous.
C7_BuyOnlyAboveRisingMA ==
    result.action = "BUY" =>
        LET q == call.qb
            n == Len(q)
            w == CallParams.ma_period
        IN  /\ q # NoQuote
            /\ result.etf_code = call.best
            /\ n >= w + 1
            /\ \A d \in 0..(CallParams.confirm_days - 1) :
                   n - d >= w /\ q[n - d] * w > SumRange(q, n - d - w + 1, n - d)
            /\ SumRange(q, n - w + 1, n) > SumRange(q, n - w, n - 1)

C7_Witness ==
    /\ result.action = "BUY"
    /\ call.pool_type = "aggressive"
    /\ call.qb = QUpAgg

\* C8: after an executed BUY for a class, its position size is the class's
\* initial_position, its average price is the entry close, its stop-loss is
\* entry * (1 - stop_loss_ratio), and exactly one BUY transaction of that
\* instrument and class has been appended to the ledger.
C8_BuyRecorded ==
    (result.action = "BUY" /\ result.status = "success") =>
        LET c == call.pool_type
            entry == Last(call.qb)
            pos == current_positions[c]
            buys == {i \in 1..Len(Appended) : Appended[i].action = "BUY"}
        IN  /\ pos.etf_code = call.best
            /\ pos.position = STRATEGY_PARAMS[c].initial_position
            /\ pos.avg_price = entry
            /\ pos.stop_loss = entry * (100 - STRATEGY_PARAMS[c].stop_loss_ratio)
            /\ SubSeq(transaction_history, 1, Len(call.history)) = call.history
            /\ Cardinality(buys) = 1
            /\ \A i \in buys :
                   /\ Appended[i].etf_code = call.best
                   /\ Appended[i].strategy_type = c
                   /\ Appended[i].price = entry
                   /\ Appended[i].position = STRATEGY_PARAMS[c].initial_position

C8_Witness ==
    /\ result.action = "BUY" /\ result.status = "success"
    /\ call.pool_type = "stable"
    /\ current_positions["stable"].stop_loss = 85000
    /\ Len(transaction_history) = Len(call.history) + 1

\* C9: for a HELD portfolio the sell conditions come first: if one of them
\* holds the decision is SELL, whatever the pool instruments show.
C9_SellBeforeBuy ==
    (SellChecked /\ (StopCond \/ BreakCond \/ TrailCond)) => result.action = "SELL"

\* C10: a HELD portfolio with no sell condition and no rotation signal gets
\* HOLD, and its position and the ledger stay as they were.
C10_HoldChangesNothing ==
    LET rotation == /\ call.qb # NoQuote
                    /\ call.best # CallPos.etf_code
                    /\ CheckBuySignal(call.best, CallParams, call.qb).action = "BUY"
    IN  (SellChecked /\ ~StopCond /\ ~BreakCond /\ ~TrailCond /\ ~rotation)
            => /\ result.status = "success"
               /\ result.action = "HOLD"
               /\ current_positions = call.positions
               /\ transaction_history = call.history

----------------------------------------------------------------------------
(* The delivery pipeline: src/wechat_notifier.py *)

Message(id, kind, pool_type) == [id |-> id, kind |-> kind, pool_type |-> pool_type]

\* add_message(message), lines 60-71, with is_retry left False
AddMessage(message) ==
    /\ message_queue' = Append(message_queue, message)
    /\ enq_log' = Append(enq_log, message)

\* start(), lines 45-51
StartNotifier ==
    IF ~running
    THEN /\ running' = TRUE
         /\ worker' = [pc |-> "loop", msg |-> NoMessage]
    ELSE UNCHANGED <<running, worker>>

\* one _send_message call, lines 109-147: the webhook answers or fails
Sent(message, source, success) ==
    [id |-> message.id, source |-> source, success |-> success, trading |-> trading,
     at |-> now]

\* _process_queue, line 75: the loop ends once running is False
WorkerExit ==
    /\ worker.pc = "loop" /\ ~running
    /\ worker' = [pc |-> "dead", msg |-> NoMessage]
    /\ UNCHANGED <<message_queue, retry_queue, running, trading, enq_log, send_log>>

WorkerTakeRetry_AnyTime ==
    /\ worker.pc = "loop" /\ running
    /\ retry_queue # <<>>
    /\ worker' = [pc |-> "retry_send", msg |-> Head(retry_queue)]
    /\ retry_queue' = Tail(retry_queue)
    /\ UNCHANGED <<message_queue, running, trading, enq_log, send_log>>

\* lines 77-78: a retry is taken first, inside trading hours only
WorkerTakeRetry ==
    /\ worker.pc = "loop" /\ running
    /\ retry_queue # <<>> /\ trading
    /\ worker' = [pc |-> "retry_send", msg |-> Head(retry_queue)]
    /\ retry_queue' = Tail(retry_queue)
    /\ UNCHANGED <<message_queue, running, trading, enq_log, send_log>>

\* lines 79-82: the retry is sent and its outcome is not looked at
WorkerSendRetry ==
    /\ worker.pc = "retry_send"
    /\ \E success \in BOOLEAN :
           send_log' = Append(send_log, Sent(worker.msg, "retry", success))
    /\ worker' = [pc |-> "loop", msg |-> NoMessage]
    /\ UNCHANGED <<message_queue, retry_queue, running, trading, enq_log>>

WorkerTakePrimary_Unordered ==
    /\ worker.pc = "loop" /\ running
    /\ message_queue # <<>>
    /\ worker' = [pc |-> "send", msg |-> Head(message_queue)]
    /\ message_queue' = Tail(message_queue)
    /\ UNCHANGED <<retry_queue, running, trading, enq_log, send_log>>

\* lines 85-93: the next primary message is taken, then the interval is slept
WorkerTakePrimary ==
    /\ worker.pc = "loop" /\ running
    /\ ~(retry_queue # <<>> /\ trading)
    /\ message_queue # <<>>
    /\ worker' = [pc |-> "send", msg |-> Head(message_queue)]
    /\ message_queue' = Tail(message_queue)
    /\ UNCHANGED <<retry_queue, running, trading, enq_log, send_log>>

WorkerSendPrimary_NoRetry ==
    /\ worker.pc = "send"
    /\ \E success \in BOOLEAN :
        /\ send_log' = Append(send_log, Sent(worker.msg, "primary", success))
        /\ retry_queue' = retry_queue
    /\ worker' = [pc |-> "loop", msg |-> NoMessage]
    /\ UNCHANGED <<message_queue, running, trading, enq_log>>

WorkerSendPrimary_RetryAnyTime ==
    /\ worker.pc = "send"
    /\ \E success \in BOOLEAN :
        /\ send_log' = Append(send_log, Sent(worker.msg, "primary", success))
        /\ retry_queue' = IF ~success
                          THEN Append(retry_queue, worker.msg) ELSE retry_queue
    /\ worker' = [pc |-> "loop", msg |-> NoMessage]
    /\ UNCHANGED <<message_queue, running, trading, enq_log>>

WorkerSendPrimary_RetryAlways ==
    /\ worker.pc = "send"
    /\ \E success \in BOOLEAN :
        /\ send_log' = Append(send_log, Sent(worker.msg, "primary", success))
        /\ retry_queue' = IF trading
                          THEN Append(retry_queue, worker.msg) ELSE retry_queue
    /\ worker' = [pc |-> "loop", msg |-> NoMessage]
    /\ UNCHANGED <<message_queue, running, trading, enq_log>>

\* lines 96-104: the send, and on failure inside trading hours the retry queue
WorkerSendPrimary ==
    /\ worker.pc = "send"
    /\ \E success \in BOOLEAN :
        /\ send_log' = Append(send_log, Sent(worker.msg, "primary", success))
        /\ retry_queue' = IF ~success /\ trading
                          THEN Append(retry_queue, worker.msg) ELSE retry_queue
    /\ worker' = [pc |-> "loop", msg |-> NoMessage]
    /\ UNCHANGED <<message_queue, running, trading, enq_log>>

\* lines 105-107: nothing to do, sleep a second and look again
WorkerIdle ==
    /\ worker.pc = "loop" /\ running
    /\ ~(retry_queue # <<>> /\ trading)
    /\ message_queue = <<>>
    /\ UNCHANGED nvars

\* the wall clock crosses a boundary of TRADING_HOURS (lines 27-32, 149-169)
Tick ==
    /\ trading' = ~trading
    /\ UNCHANGED <<message_queue, retry_queue, running, worker, enq_log, send_log>>

----------------------------------------------------------------------------
(* The pipeline with a worker that is started once and never stopped, and   *)
(* callers that enqueue MaxMessages messages.                               *)

Enqueue ==
    /\ Len(enq_log) < MaxMessages
    /\ AddMessage(Message(Len(enq_log) + 1, "text", ""))
    /\ UNCHANGED <<retry_queue, running, worker, trading, send_log, svars, cvars, kvars, tvars>>

Start ==
    /\ ~running
    /\ StartNotifier
    /\ UNCHANGED <<message_queue, retry_queue, trading, enq_log, send_log,
                   svars, cvars, kvars, tvars>>

TakeRetry == WorkerTakeRetry /\ UNCHANGED <<svars, cvars, kvars, tvars>>
SendRetry == WorkerSendRetry /\ UNCHANGED <<svars, cvars, kvars, tvars>>
TakePrimary == WorkerTakePrimary /\ UNCHANGED <<svars, cvars, kvars, tvars>>
SendPrimary == WorkerSendPrimary /\ UNCHANGED <<svars, cvars, kvars, tvars>>
Idle == WorkerIdle /\ UNCHANGED <<svars, cvars, kvars, tvars>>
ClockTick == Tick /\ UNCHANGED <<svars, cvars, kvars, tvars>>

LiveNext ==
    \/ Enqueue
    \/ Start
    \/ TakeRetry
    \/ SendRetry
    \/ TakePrimary
    \/ SendPrimary
    \/ Idle
    \/ ClockTick

MessageIds == 1..MaxMessages

\* a send of message m that the webhook accepts (_send_message returns True)
DeliverOk(m) ==
    /\ worker.msg.id = m
    /\ SendPrimary \/ SendRetry
    /\ send_log'[Len(send_log')].success

\* The thread is scheduled; the clock advances; a trading session is long
\* against the one-second poll, so a waiting retry is taken in some session;
\* failures are transient: a message sent again and again is accepted.
LiveSpec ==
    /\ Init
    /\ [][LiveNext]_vars
    /\ WF_vars(Start)
    /\ WF_vars(SendRetry)
    /\ WF_vars(TakePrimary)
    /\ WF_vars(SendPrimary)
    /\ WF_vars(ClockTick)
    /\ SF_vars(TakeRetry)
    /\ \A m \in MessageIds : SF_vars(DeliverOk(m))

----------------------------------------------------------------------------
(* The execute_strategy task of src/main.py on a freshly built strategy and *)
(* notifier, with the worker thread and the clock running beside it.        *)

\* the keys format_strategy_message reads for each action, lines 185-213
FormatKeys(action) ==
    IF action = "BUY"
    THEN {"etf_code", "etf_name", "price", "position", "stop_loss", "message"}
    ELSE IF action = "SELL" THEN {"etf_code", "price", "message"}
    ELSE IF action = "HOLD" THEN {"current_position", "message"}
    ELSE {"action", "message"}

\* format_strategy_message, lines 171-215: the content, named by the action it
\* reports, or the KeyError of a key the result does not carry
FormatStrategyMessage(strategy_result, pool_type) ==
    IF FormatKeys(strategy_result.action) \subseteq strategy_result.keys
    THEN [raised |-> FALSE, kind |-> strategy_result.action]
    ELSE [raised |-> TRUE, kind |-> "KeyError"]

\* send_strategy_result, lines 217-235; raised' tells whether it raised
SendStrategyResult(strategy_result, pool_type, raised) ==
    IF strategy_result.status # "success"
    THEN /\ raised = FALSE
         /\ UNCHANGED <<message_queue, enq_log>>
    ELSE LET content == FormatStrategyMessage(strategy_result, pool_type)
         IN  /\ raised = content.raised
             /\ IF content.raised
                THEN UNCHANGED <<message_queue, enq_log>>
                ELSE AddMessage(Message(Len(enq_log) + 1, content.kind, pool_type))

\* what follows the handling of one class, lines 184-194
After(pool_type) ==
    IF pool_type = "stable" THEN At("exec", "aggressive") ELSE At("wait", "")

\* main.py line 181
TaskStart ==
    /\ task_pc = At("start", "")
    /\ StartNotifier
    /\ task_pc' = At("exec", "stable")
    /\ UNCHANGED <<message_queue, retry_queue, trading, enq_log, send_log,
                   svars, cvars, kvars, task_result>>

\* main.py lines 184-185 and 189-190
TaskExecute(pool_type) ==
    /\ task_pc = At("exec", pool_type)
    /\ ExecuteCall(pool_type)
    /\ task_result' = [task_result EXCEPT ![pool_type] = result']
    /\ task_pc' = IF result'.status = "raised" THEN At("except", "")
                  ELSE IF result'.status = "success" THEN At("send", pool_type)
                  ELSE After(pool_type)
    /\ UNCHANGED <<nvars, cvars, kvars>>

\* main.py lines 186 and 191
TaskSend(pool_type) ==
    /\ task_pc = At("send", pool_type)
    /\ \E raised \in BOOLEAN :
        /\ SendStrategyResult(task_result[pool_type], pool_type, raised)
        /\ task_pc' = IF raised THEN At("except", "") ELSE After(pool_type)
    /\ UNCHANGED <<retry_queue, running, worker, trading, send_log,
                   svars, cvars, kvars, task_result>>

\* main.py lines 194-196: both queues are seen empty, then stop() line 55
TaskWait ==
    /\ task_pc = At("wait", "")
    /\ message_queue = <<>> /\ retry_queue = <<>>
    /\ running' = FALSE
    /\ task_pc' = At("join", "")
    /\ UNCHANGED <<message_queue, retry_queue, worker, trading, enq_log,
                   send_log, svars, cvars, kvars, task_result>>

\* main.py lines 298-310: the handler of an exception leaving the task body
TaskExcept ==
    /\ task_pc = At("except", "")
    /\ StartNotifier
    /\ AddMessage(Message(Len(enq_log) + 1, "error", ""))
    /\ task_pc' = At("except_sleep", "")
    /\ UNCHANGED <<retry_queue, trading, send_log, svars, cvars, kvars, task_result>>

\* main.py lines 311-312: ten seconds later, stop() line 55
TaskExceptStop ==
    /\ task_pc = At("except_sleep", "")
    /\ running' = FALSE
    /\ task_pc' = At("join", "")
    /\ UNCHANGED <<message_queue, retry_queue, worker, trading, enq_log,
                   send_log, svars, cvars, kvars, task_result>>

\* stop() lines 56-57: the join returns once the worker thread has ended
TaskJoin ==
    /\ task_pc = At("join", "")
    /\ worker.pc = "dead"
    /\ task_pc' = At("done", "")
    /\ UNCHANGED <<nvars, svars, cvars, kvars, task_result>>

Exit == WorkerExit /\ UNCHANGED <<svars, cvars, kvars, tvars>>

TaskNext ==
    \/ TaskStart
    \/ \E pool_type \in Classes : TaskExecute(pool_type)
    \/ \E pool_type \in Classes : TaskSend(pool_type)
    \/ TaskWait
    \/ TaskExcept
    \/ TaskExceptStop
    \/ TaskJoin
    \/ Exit
    \/ TakeRetry
    \/ SendRetry
    \/ TakePrimary
    \/ SendPrimary
    \/ Idle
    \/ ClockTick

TaskSpec == Init /\ [][TaskNext]_vars

----------------------------------------------------------------------------
(* Properties of the delivery pipeline *)

Enqueued(m) == \E i \in 1..Len(enq_log) : enq_log[i].id = m

Sends(m) == {i \in 1..Len(send_log) : send_log[i].id = m}

OkSends(m) == {i \in Sends(m) : send_log[i].success}

\* a failed send after which the code keeps the message nowhere: a first send
\* failing outside trading hours, or a retry failing
Dropped(m) ==
    \E i \in Sends(m) :
        /\ ~send_log[i].success
        /\ send_log[i].source = "retry" \/ ~send_log[i].trading

Reports(action, pool_type) ==
    {i \in 1..Len(enq_log) :
        enq_log[i].kind = action /\ enq_log[i].pool_type = pool_type}

\* C4: in the strategy task, once an executed BUY or SELL of a class has been
\* handled, exactly one message reporting that decision has been put on the
\* primary queue.
C4_OneMessagePerDecision ==
    \A c \in Classes :
        (/\ task_result[c].status = "success"
         /\ task_result[c].action \in {"BUY", "SELL"}
         /\ task_pc # At("send", c))
        => Cardinality(Reports(task_result[c].action, c)) = 1

----------------------------------------------------------------------------
(* Further properties of the strategy *)

\* the latest call changed neither a position nor the ledger
CallChangedNothing ==
    current_positions = call.positions /\ transaction_history = call.history

\* C11: when the quote provider returns an empty series for the held
\* instrument, execute() yields HOLD: the position is not closed, its stop-loss
\* is unchanged, no transaction is appended and no error is raised.
C11_NoDataHolds ==
    (HeldCall /\ call.qs = QEmpty /\ call.best # CallPos.etf_code)
        => /\ result.status = "success"
           /\ result.action = "HOLD"
           /\ current_positions[call.pool_type] = CallPos
           /\ transaction_history = call.history

\* C12: when the candidate pool of the evaluated class is empty, execute()
\* returns HOLD with the pool-empty rationale and status success, and changes
\* neither the position nor the ledger, whether the portfolio is flat or held.
C12_EmptyPoolHolds ==
    (call.pool_type # "" /\ call.pool_empty)
        => /\ result.status = "success"
           /\ result.action = "HOLD"
           /\ result.message = "pool empty"
           /\ CallChangedNothing

C12_Witness ==
    /\ HeldCall /\ call.pool_empty
    /\ result.message = "pool empty"
    /\ \E c \in Classes : c # call.pool_type /\ current_positions[c].position = 0

----------------------------------------------------------------------------
(* The strategy on one instrument bought at two different prices: both      *)
(* classes draw on a pool holding only A, and the provider answers with     *)
(* series closing at 10.00 and at 12.00.                                    *)

QHigh == Rep(19, 900) \o <<1200, 1200, 1200>>
QFlat == Rep(22, 1000)

TrailPool == <<"A">>
TrailQuotes == {QEmpty, QUp, QHigh, QFlat}

\* one execute_strategy(pool_type) call, the pool being TrailPool
TrailExecute(pool_type) ==
    \E qs \in (IF current_positions[pool_type].position > 0
               THEN TrailQuotes ELSE {NoQuote}) :
    \E q \in (IF qs \in {NoQuote, QEmpty}
              THEN [1..Len(TrailPool) -> TrailQuotes] ELSE {<<>>}) :
    \E best \in {IF Len(q) = 0 THEN "" ELSE SelectBestETF(TrailPool, q)} :
    \E qb \in {BuyQuote(TrailPool, q, best)} :
    \E out \in {ExecuteStrategy(current_positions, transaction_history,
                                   pool_type, TrailPool, qs, q, qb)} :
            /\ Len(out.history) <= MaxLedger
            /\ current_positions' = out.positions
            /\ transaction_history' = out.history
            /\ result' = out.result
            /\ call' = [pool_type |-> pool_type, positions |-> current_positions,
                        history |-> transaction_history, qs |-> qs,
                        best |-> best, qb |-> qb, pool_empty |-> FALSE,
                        op |-> "execute", arg |-> NoArg]
            /\ files' = StoreAfter(out.history)
            /\ returned' = <<>>
            /\ UNCHANGED today
            /\ UNCHANGED <<nvars, cvars, kvars, tvars>>

TrailNext == \E pool_type \in Classes : TrailExecute(pool_type)

TrailSpec == Init /\ [][TrailNext]_vars

\* the price of the most recent BUY of the instrument in the ledger
LatestBuyPrice(history, etf_code) ==
    LET buys == {j \in 1..Len(history) :
                    history[j].etf_code = etf_code /\ history[j].action = "BUY"}
    IN  history[CHOOSE j \in buys : \A k \in buys : k <= j].price

\* C13: with neither the fixed stop-loss nor the breakdown holding, and the
\* ledger holding BUYs of the held instrument at several prices with the most
\* recent one below the highest, the decision is SELL by trailing stop exactly
\* when the highest BUY price reduced by tracking_stop_ratio exceeds the close.
C13_TrailingUsesMaxBuy ==
    (/\ SellChecked /\ ~StopCond /\ ~BreakCond
     /\ Cardinality(BuyPrices(call.history, CallPos.etf_code)) >= 2
     /\ LatestBuyPrice(call.history, CallPos.etf_code)
            < SetMax(BuyPrices(call.history, CallPos.etf_code)))
        => ((result.action = "SELL" /\ result.message = "trailing stop")
                <=> TrailingStopHit(call.history, CallPos.etf_code, CallParams, call.qs))

----------------------------------------------------------------------------
(* A flat stable portfolio evaluated once per day on a strictly rising      *)
(* close series of instrument A that grows by one session per day.          *)

Bases == {900, 1000, 1100}
Steps == {1, 10, 50}

StrictlyRising(q) == \A i \in 1..(Len(q) - 1) : q[i] < q[i + 1]

\* the series of the latest evaluation, <<>> before the first
DaySeries == IF call.pool_type = "" THEN <<>> ELSE call.qb

\* the series one session later: the first close, then the step, are chosen
NextSeries ==
    IF Len(DaySeries) = 0 THEN {<<b>> : b \in Bases}
    ELSE IF Len(DaySeries) = 1 THEN {Append(DaySeries, DaySeries[1] + d) : d \in Steps}
    ELSE {Append(DaySeries, Last(DaySeries) + (DaySeries[2] - DaySeries[1]))}

\* the day's execute_strategy('stable') call while the portfolio is flat
DayExecute ==
    /\ current_positions["stable"].position = 0
    /\ Len(DaySeries) < MaxDay
    /\ \E series \in NextSeries :
       \E out \in {ExecuteStrategy(current_positions, transaction_history,
                                      "stable", <<"A">>, NoQuote, <<series>>, series)} :
            /\ current_positions' = out.positions
            /\ transaction_history' = out.history
            /\ result' = out.result
            /\ call' = [pool_type |-> "stable", positions |-> current_positions,
                        history |-> transaction_history, qs |-> NoQuote,
                        best |-> SelectBestETF(<<"A">>, <<series>>),
                        qb |-> series, pool_empty |-> FALSE,
                        op |-> "execute", arg |-> NoArg]
            /\ files' = StoreAfter(out.history)
            /\ returned' = <<>>
            /\ UNCHANGED today
            /\ UNCHANGED <<nvars, cvars, kvars, tvars>>

DayNext == DayExecute

DaySpec == Init /\ [][DayNext]_vars

\* the latest call evaluated a flat stable portfolio on a strictly rising series
RisingFlatCall ==
    /\ call.pool_type = "stable" /\ CallPos.position = 0
    /\ call.qb # NoQuote /\ StrictlyRising(call.qb)

\* C14 as claimed: on a strictly rising series the evaluations of days 1 to 22
\* yield HOLD and the one of day 23 is the first to yield BUY.
C14_FirstBuyOnDay23 ==
    RisingFlatCall =>
        /\ Len(call.qb) <= 22 => result.action = "HOLD"
        /\ Len(call.qb) >= 23 => result.action = "BUY"

\* C14 as amended: the evaluations of days 1 to 21 yield HOLD and the one of
\* day 22 is the first to yield BUY.
C14_FirstBuyOnDay22 ==
    RisingFlatCall =>
        /\ Len(call.qb) <= 21 => result.action = "HOLD" /\ result.status = "success"
        /\ Len(call.qb) >= 22 => result.action = "BUY" /\ result.status = "success"

C14_Witness ==
    /\ RisingFlatCall
    /\ Len(call.qb) = 22
    /\ result.action = "BUY"
    /\ current_positions["stable"].avg_price = Last(call.qb)

----------------------------------------------------------------------------
(* The strategy object and its store over several days and processes: calls *)
(* of execute_strategy and of _execute_sell, queries of the ledger, the     *)
(* calendar moving on, and the process ending and a new one being built.    *)

StoreQuotes == {QEmpty, QUp}

\* one execute_strategy(pool_type) call, the pool holding only A
StoreExecute(pool_type) ==
    \E qs \in (IF current_positions[pool_type].position > 0
               THEN StoreQuotes ELSE {NoQuote}) :
    \E q \in (IF qs \in {NoQuote, QEmpty}
              THEN [1..1 -> StoreQuotes] ELSE {<<>>}) :
    \E best \in {IF Len(q) = 0 THEN "" ELSE SelectBestETF(<<"A">>, q)} :
    \E qb \in {BuyQuote(<<"A">>, q, best)} :
    \E out \in {ExecuteStrategy(current_positions, transaction_history,
                                   pool_type, <<"A">>, qs, q, qb)} :
            /\ Len(out.history) <= MaxRecords
            /\ current_positions' = out.positions
            /\ transaction_history' = out.history
            /\ result' = out.result
            /\ call' = [NoCall EXCEPT !.op = "execute", !.pool_type = pool_type,
                                      !.positions = current_positions,
                                      !.history = transaction_history,
                                      !.qs = qs, !.best = best, !.qb = qb]
            /\ files' = StoreAfter(out.history)
            /\ returned' = <<>>
            /\ UNCHANGED <<today, nvars, cvars, kvars, tvars>>

\* the SELL signals handed to _execute_sell
SellSignals ==
    {Signal("SELL", "manual", etf_code, 0, 1100, 0, NoRatio,
            {"action", "reason", "etf_code", "position", "price"}) :
        etf_code \in Instruments}

\* one _execute_sell(signal, pool_type) call
DirectSell(pool_type) ==
    \E signal \in SellSignals :
    \E out \in {ExecuteSell(current_positions, transaction_history, signal, pool_type)} :
        /\ Len(out.history) <= MaxRecords
        /\ current_positions' = out.positions
        /\ transaction_history' = out.history
        /\ files' = StoreAfter(out.history)
        /\ result' = out.result
        /\ call' = [NoCall EXCEPT !.op = "sell", !.pool_type = pool_type,
                                  !.positions = current_positions,
                                  !.history = transaction_history,
                                  !.arg = Arg(signal.etf_code, 0, 0)]
        /\ returned' = <<>>
        /\ UNCHANGED <<today, nvars, cvars, kvars, tvars>>

PrintTransactionHistory_FromToday(history, start_date, end_date) ==
    SelectSeq(history, LAMBDA t : t.timestamp >= today)

\* print_transaction_history, lines 354-378: the list returned; a bound of 0
\* stands for None
PrintTransactionHistory(history, start_date, end_date) ==
    LET from == IF start_date # 0
                THEN SelectSeq(history, LAMBDA t : t.timestamp >= start_date)
                ELSE history
    IN  IF end_date # 0
        THEN SelectSeq(from, LAMBDA t : t.timestamp <= end_date)
        ELSE from

\* one print_transaction_history(start_date, end_date) call
History ==
    \E start_date \in {0, today} :
    \E end_date \in {0, today} :
        /\ returned' = PrintTransactionHistory(transaction_history,
                                               start_date, end_date)
        /\ call' = [NoCall EXCEPT !.op = "history",
                                  !.arg = Arg("", start_date, end_date)]
        /\ UNCHANGED <<current_positions, transaction_history, result, today,
                       files, nvars, cvars, kvars, tvars>>

\* midnight passes
NextDate ==
    /\ today < MaxDate
    /\ today' = today + 1
    /\ UNCHANGED <<current_positions, transaction_history, call, result, files,
                   returned, nvars, cvars, kvars, tvars>>

LatestLog_Oldest(fs) ==
    LET logged == {d \in DOMAIN fs : fs[d] # NoFile}
    IN  IF logged = {} THEN 0 ELSE CHOOSE d \in logged : \A e \in logged : d <= e

\* _get_latest_transaction_log, lines 77-83: the day of the file whose name
\* sorts last, 0 standing for None
LatestLog(fs) ==
    LET logged == {d \in DOMAIN fs : fs[d] # NoFile}
    IN  IF logged = {} THEN 0 ELSE CHOOSE d \in logged : \A e \in logged : d >= e

\* load_transaction_history, lines 62-75
LoadTransactionHistory(fs) ==
    IF LatestLog(fs) = 0 THEN <<>> ELSE fs[LatestLog(fs)]

\* the process ends and FishBowlStrategy.__init__ (lines 48-60) runs in a new one
Restart ==
    /\ current_positions' = [c \in Classes |-> FlatPosition]
    /\ transaction_history' = LoadTransactionHistory(files)
    /\ result' = NoResult
    /\ call' = [NoCall EXCEPT !.op = "restart",
                              !.positions = current_positions,
                              !.history = transaction_history]
    /\ returned' = <<>>
    /\ UNCHANGED <<today, files, nvars, cvars, kvars, tvars>>

StoreNext ==
    \/ \E pool_type \in Classes : StoreExecute(pool_type)
    \/ \E pool_type \in Classes : DirectSell(pool_type)
    \/ History
    \/ NextDate
    \/ Restart

StoreSpec == Init /\ [][StoreNext]_vars

IsPrefix(s, t) == Len(s) <= Len(t) /\ SubSeq(t, 1, Len(s)) = s

\* C15: _execute_sell given a SELL signal whose instrument differs from the
\* recorded instrument of the class returns status error and leaves every
\* position and the ledger unchanged.
C15_MismatchedSellRejected ==
    (call.op = "sell" /\ call.arg.etf_code # CallPos.etf_code)
        => /\ result.status = "error"
           /\ CallChangedNothing

C15_Witness ==
    /\ call.op = "sell" /\ HeldCall
    /\ call.arg.etf_code # CallPos.etf_code
    /\ result.status = "error"
    /\ Len(transaction_history) > 0

\* the step is a call of execute_strategy or _execute_sell that executed a
\* BUY or a SELL
ExecutedStep ==
    /\ call' # call
    /\ call'.op \in {"execute", "sell"}
    /\ result'.status = "success"
    /\ result'.action \in {"BUY", "SELL"}

\* C16: the ledger is append-only: every step leaves the earlier ledger as a
\* prefix of the later one, a call that executed a BUY or a SELL adds exactly
\* one record, and any other step (HOLD, error, exception) adds nothing.
C16_LedgerAppendOnly ==
    [][/\ IsPrefix(transaction_history, transaction_history')
       /\ Len(transaction_history')
            = Len(transaction_history) + (IF ExecutedStep THEN 1 ELSE 0)]_vars

C16_Witness ==
    /\ Len(transaction_history) = 2
    /\ transaction_history[1].action = "BUY"
    /\ transaction_history[2].action = "SELL"
    /\ call.op = "sell" /\ result.status = "success"
    /\ Len(call.history) = 1

\* C17: print_transaction_history called with no start and no end bound
\* returns all transactions of the ledger, unfiltered and in insertion order.
C17_UnboundedHistoryIsLedger ==
    (call.op = "history" /\ call.arg.start_date = 0 /\ call.arg.end_date = 0)
        => returned = transaction_history

C17_Witness ==
    /\ call.op = "history" /\ call.arg.start_date = 0 /\ call.arg.end_date = 0
    /\ Len(returned) = 2
    /\ returned[1].action = "BUY" /\ returned[2].action = "SELL"
    /\ returned[1].timestamp < today

\* C18: the position of each class survives a restart: a newly constructed
\* strategy instance has the positions the old one had.
C18_PositionsSurviveRestart ==
    call.op = "restart" => current_positions = call.positions

\* C19: the ledger round-trips across a restart: a newly constructed strategy
\* instance loads a ledger equal to the in-memory ledger before the restart,
\* also when the records were written on several days.
C19_LedgerSurvivesRestart ==
    call.op = "restart" => transaction_history = call.history

C19_Witness ==
    /\ call.op = "restart"
    /\ Len(transaction_history) = 2
    /\ transaction_history[1].timestamp < transaction_history[2].timestamp
    /\ files[transaction_history[1].timestamp] # NoFile

----------------------------------------------------------------------------
(* The pipeline with the clock observed: the sending thread reads time.time() *)
(* and sleeps out the rest of message_interval before a primary send.  In the *)
(* specifications above time is not observed and the sleep is left out.      *)

\* the clock readings of the model end here
Horizon == message_interval * (MaxMessages + 1)

\* seconds that pass at a time
Leaps == {20, 60}

\* time passes
TickTime ==
    \E d \in Leaps :
        /\ now + d <= Horizon
        /\ now' = now + d
        /\ UNCHANGED <<last_send_time, nvars, svars, kvars, tvars>>

TimedSendPrimary_NoSleep ==
    /\ worker.pc = "send"
    /\ \E success \in BOOLEAN, took \in {0, 20} :
        /\ now + took <= Horizon
        /\ send_log' = Append(send_log, Sent(worker.msg, "primary", success))
        /\ now' = now + took
        /\ last_send_time' = now'
        /\ retry_queue' = IF ~success /\ trading
                          THEN Append(retry_queue, worker.msg) ELSE retry_queue
    /\ worker' = [pc |-> "loop", msg |-> NoMessage]
    /\ UNCHANGED <<message_queue, running, trading, enq_log, svars, kvars, tvars>>

\* lines 88-104 with the clock: the sleep of lines 90-93 has ended once
\* message_interval has passed since last_send_time; the send of line 96
\* takes some time; line 97 then reads the clock into last_send_time
TimedSendPrimary ==
    /\ worker.pc = "send"
    /\ now >= last_send_time + message_interval
    /\ \E success \in BOOLEAN, took \in {0, 20} :
        /\ now + took <= Horizon
        /\ send_log' = Append(send_log, Sent(worker.msg, "primary", success))
        /\ now' = now + took
        /\ last_send_time' = now'
        /\ retry_queue' = IF ~success /\ trading
                          THEN Append(retry_queue, worker.msg) ELSE retry_queue
    /\ worker' = [pc |-> "loop", msg |-> NoMessage]
    /\ UNCHANGED <<message_queue, running, trading, enq_log, svars, kvars, tvars>>

TimedNext ==
    \/ Enqueue
    \/ Start
    \/ TakeRetry
    \/ SendRetry
    \/ TakePrimary
    \/ TimedSendPrimary
    \/ Idle
    \/ ClockTick
    \/ TickTime

TimedSpec == Init /\ [][TimedNext]_vars

\* no send has failed so far
NoFailures == \A i \in 1..Len(send_log) : send_log[i].success

\* C20: with no send failures the worker sends the messages in enqueue order,
\* two consecutive sends are at least message_interval apart, and the sends of
\* N messages span at least (N - 1) * message_interval.
C20_OrderedAndSpaced ==
    NoFailures =>
        /\ \A i \in 1..Len(send_log) : send_log[i].id = enq_log[i].id
        /\ \A i \in 1..(Len(send_log) - 1) :
               send_log[i + 1].at - send_log[i].at >= message_interval
        /\ Len(send_log) >= 1 =>
               send_log[Len(send_log)].at - send_log[1].at
                   >= (Len(send_log) - 1) * message_interval

C20_Witness ==
    /\ NoFailures
    /\ Len(send_log) = MaxMessages
    /\ message_queue = <<>> /\ worker.pc = "loop"
    /\ send_log[2].at - send_log[1].at = message_interval

\* C21: a primary message is dispatched at least message_interval after the
\* most recent send attempt of any kind, retry sends and failed sends included.
C21_PrimaryAfterAnySend ==
    \A i \in 1..Len(send_log) : \A j \in 1..(i - 1) :
        send_log[i].source = "primary"
            => send_log[i].at - send_log[j].at >= message_interval

----------------------------------------------------------------------------
(* Failed sends and the retry queue *)

InQueue(q, m) == \E k \in 1..Len(q) : q[k].id = m

\* the send_log entries of message m made from the retry queue
RetrySends(m) == {i \in Sends(m) : send_log[i].source = "retry"}

\* entry i is a primary send that failed inside trading hours
FailedInHours(i) ==
    /\ send_log[i].source = "primary"
    /\ ~send_log[i].success
    /\ send_log[i].trading

\* C22: a primary send that fails inside trading hours puts the message on the
\* retry queue, and with the worker running and trading hours recurring the
\* message is eventually popped from the retry queue and sent again.
C22_FailedInHoursRetried ==
    /\ [](\A i \in 1..Len(send_log) :
            FailedInHours(i) =>
                \/ InQueue(retry_queue, send_log[i].id)
                \/ worker.pc = "retry_send" /\ worker.msg.id = send_log[i].id
                \/ RetrySends(send_log[i].id) # {})
    /\ \A m \in MessageIds :
            InQueue(retry_queue, m) ~> (RetrySends(m) # {})

C22_Witness ==
    \E i \in 1..Len(send_log) :
        /\ FailedInHours(i)
        /\ \E j \in RetrySends(send_log[i].id) : j > i

\* entry i is a send that failed outside trading hours
FailedOffHours(i) == ~send_log[i].success /\ ~send_log[i].trading

\* C23: a message whose send fails outside trading hours is dropped: from then
\* on it is in neither queue, no thread holds it, and it is never sent again.
C23_FailedOffHoursDropped ==
    \A i \in 1..Len(send_log) :
        FailedOffHours(i) =>
            /\ ~InQueue(message_queue, send_log[i].id)
            /\ ~InQueue(retry_queue, send_log[i].id)
            /\ worker.msg.id # send_log[i].id
            /\ \A j \in Sends(send_log[i].id) : j <= i

\* a send failed outside trading hours, trading hours came, and the worker
\* went on to send another message
C23_Witness ==
    \E i \in 1..Len(send_log) :
        /\ FailedOffHours(i)
        /\ send_log[i].source = "primary"
        /\ i < Len(send_log)
        /\ send_log[Len(send_log)].trading
        /\ worker.pc = "loop"

\* C24: right after a send attempt that fails inside trading hours, whichever
\* queue the message was taken from, the message is in the retry queue.
C24_FailedInHoursQueued ==
    [][(/\ Len(send_log') = Len(send_log) + 1
        /\ ~send_log'[Len(send_log')].success
        /\ send_log'[Len(send_log')].trading)
            => InQueue(retry_queue', send_log'[Len(send_log')].id)]_vars

\* C25: a message leaves the retry queue for a send only in a step taken inside
\* trading hours (the check of line 77, which the get and the send of lines
\* 78-79 follow at once), and in a step taken outside trading hours the worker
\* leaves the retry queue unchanged.
C25_RetryOnlyInHours ==
    [][/\ retry_queue' # retry_queue => trading
       /\ worker'.pc = "retry_send" /\ worker.pc # "retry_send" => trading
       /\ Len(send_log') > Len(send_log) /\ send_log'[Len(send_log')].source = "retry"
              => worker.pc = "retry_send"]_vars

\* a retry was sent and, later, outside trading hours, a message waits in the
\* retry queue while the worker polls
C25_Witness ==
    /\ \E i \in 1..Len(send_log) : send_log[i].source = "retry"
    /\ retry_queue # <<>>
    /\ ~trading
    /\ worker.pc = "loop"

----------------------------------------------------------------------------
(* start() and stop() called by several application threads, and every      *)
(* thread start() has created running _process_queue.                       *)

\* the caller is where c is, and the thread t moves
CallerMoves(c, at) == callers' = [callers EXCEPT ![c] = at]
ThreadMoves(t, th) == threads' = [threads EXCEPT ![t] = th]

Unborn == {t \in ThreadIds : threads[t].pc = "unborn"}

\* start(), line 47: the test of running
StartCheck(c) ==
    /\ callers[c].pc = "idle"
    /\ Unborn # {}
    /\ CallerMoves(c, CallerAt(IF ~running THEN "start_set" ELSE "idle", NoThread))
    /\ UNCHANGED <<pending, threads, sending_thread, nvars, svars, cvars, tvars>>

\* start(), line 48
StartSet(c) ==
    /\ callers[c].pc = "start_set"
    /\ running' = TRUE
    /\ CallerMoves(c, CallerAt("start_spawn", NoThread))
    /\ UNCHANGED <<pending, threads, sending_thread, message_queue, retry_queue, worker,
                   trading, enq_log, send_log, svars, cvars, tvars>>

\* start(), lines 49-51: a new thread is created, referred to and started
StartSpawn(c) ==
    /\ callers[c].pc = "start_spawn"
    /\ \E t \in Unborn :
        /\ \A u \in Unborn : t <= u
        /\ ThreadMoves(t, Thread("loop", NoMessage))
        /\ sending_thread' = t
    /\ CallerMoves(c, CallerAt("idle", NoThread))
    /\ UNCHANGED <<pending, nvars, svars, cvars, tvars>>

\* stop(), line 55
StopClear(c) ==
    /\ callers[c].pc = "idle"
    /\ running' = FALSE
    /\ CallerMoves(c, CallerAt("stop_join", NoThread))
    /\ UNCHANGED <<pending, threads, sending_thread, message_queue, retry_queue, worker,
                   trading, enq_log, send_log, svars, cvars, tvars>>

StopJoin_NoneUnchecked(c) ==
    /\ callers[c].pc = "stop_join"
    /\ CallerMoves(c, IF sending_thread = NoThread
                      THEN CallerAt("raised", NoThread)
                      ELSE IF threads[sending_thread].pc = "dead"
                      THEN CallerAt("idle", NoThread)
                      ELSE CallerAt("joining", sending_thread))
    /\ UNCHANGED <<pending, threads, sending_thread, nvars, svars, cvars, tvars>>

\* stop(), lines 56-57: no thread or a dead one, or the join begins
StopJoin(c) ==
    /\ callers[c].pc = "stop_join"
    /\ CallerMoves(c, IF sending_thread = NoThread
                         \/ threads[sending_thread].pc = "dead"
                      THEN CallerAt("idle", NoThread)
                      ELSE CallerAt("joining", sending_thread))
    /\ UNCHANGED <<pending, threads, sending_thread, nvars, svars, cvars, tvars>>

\* stop(), lines 57-58: the join returns once the thread has ended
StopJoined(c) ==
    /\ callers[c].pc = "joining"
    /\ threads[callers[c].target].pc = "dead"
    /\ CallerMoves(c, CallerAt("idle", NoThread))
    /\ UNCHANGED <<pending, threads, sending_thread, nvars, svars, cvars, tvars>>

\* _process_queue as thread t runs it

\* line 75
ThreadExit(t) ==
    /\ threads[t].pc = "loop" /\ ~running
    /\ ThreadMoves(t, Thread("dead", NoMessage))
    /\ UNCHANGED <<pending, sending_thread, callers, nvars, svars, cvars, tvars>>

\* lines 77-78
ThreadTakeRetry(t) ==
    /\ threads[t].pc = "loop" /\ running
    /\ retry_queue # <<>> /\ trading
    /\ ThreadMoves(t, Thread("retry_send", Head(retry_queue)))
    /\ retry_queue' = Tail(retry_queue)
    /\ UNCHANGED <<pending, message_queue, running, worker, trading, enq_log, send_log,
                   sending_thread, callers, svars, cvars, tvars>>

\* lines 79-82
ThreadSendRetry(t) ==
    /\ threads[t].pc = "retry_send"
    /\ \E success \in BOOLEAN :
           send_log' = Append(send_log, Sent(threads[t].msg, "retry", success))
    /\ ThreadMoves(t, Thread("loop", NoMessage))
    /\ UNCHANGED <<pending, message_queue, retry_queue, running, worker, trading, enq_log,
                   sending_thread, callers, svars, cvars, tvars>>

\* lines 85-93
ThreadTakePrimary(t) ==
    /\ threads[t].pc = "loop" /\ running
    /\ ~(retry_queue # <<>> /\ trading)
    /\ message_queue # <<>>
    /\ ThreadMoves(t, Thread("send", Head(message_queue)))
    /\ message_queue' = Tail(message_queue)
    /\ UNCHANGED <<pending, retry_queue, running, worker, trading, enq_log, send_log,
                   sending_thread, callers, svars, cvars, tvars>>

\* lines 96-104
ThreadSendPrimary(t) ==
    /\ threads[t].pc = "send"
    /\ \E success \in BOOLEAN :
        /\ send_log' = Append(send_log, Sent(threads[t].msg, "primary", success))
        /\ retry_queue' = IF ~success /\ trading
                          THEN Append(retry_queue, threads[t].msg) ELSE retry_queue
    /\ ThreadMoves(t, Thread("loop", NoMessage))
    /\ UNCHANGED <<pending, message_queue, running, worker, trading, enq_log,
                   sending_thread, callers, svars, cvars, tvars>>

\* lines 105-107
ThreadIdle(t) ==
    /\ threads[t].pc = "loop" /\ running
    /\ ~(retry_queue # <<>> /\ trading)
    /\ message_queue = <<>>
    /\ UNCHANGED vars

\* add_message, called by any application thread
LifeEnqueue ==
    /\ Len(enq_log) < MaxMessages
    /\ AddMessage(Message(Len(enq_log) + 1, "text", ""))
    /\ UNCHANGED <<retry_queue, running, worker, trading, send_log,
                   svars, cvars, kvars, tvars>>

LifeTick == Tick /\ UNCHANGED <<svars, cvars, kvars, tvars>>

LifeNext ==
    \/ \E c \in Callers : StartCheck(c)
    \/ \E c \in Callers : StartSet(c)
    \/ \E c \in Callers : StartSpawn(c)
    \/ \E c \in Callers : StopClear(c)
    \/ \E c \in Callers : StopJoin(c)
    \/ \E c \in Callers : StopJoined(c)
    \/ \E t \in ThreadIds : ThreadExit(t)
    \/ \E t \in ThreadIds : ThreadTakeRetry(t)
    \/ \E t \in ThreadIds : ThreadSendRetry(t)
    \/ \E t \in ThreadIds : ThreadTakePrimary(t)
    \/ \E t \in ThreadIds : ThreadSendPrimary(t)
    \/ \E t \in ThreadIds : ThreadIdle(t)
    \/ LifeEnqueue
    \/ LifeTick

LifeSpec == Init /\ [][LifeNext]_vars

\* the threads that are inside _process_queue
Alive == {t \in ThreadIds : threads[t].pc \notin {"unborn", "dead"}}

\* the threads that hold a message taken from a queue for _send_message
InFlight == {t \in ThreadIds : threads[t].pc \in {"send", "retry_send"}}

\* C26: whatever the interleaving of start() and stop() calls, concurrent
\* callers included, at most one dispatch worker runs at a time, and so at
\* most one send is in flight at a time.
C26_SingleWorker ==
    /\ Cardinality(Alive) <= 1
    /\ Cardinality(InFlight) <= 1

----------------------------------------------------------------------------
(* One application thread that calls start() and stop() in any order *)

Solo == "c1"

\* one step of thread t that is not the idle sleep
ThreadStep(t) ==
    \/ ThreadExit(t)
    \/ ThreadTakeRetry(t)
    \/ ThreadSendRetry(t)
    \/ ThreadTakePrimary(t)
    \/ ThreadSendPrimary(t)

SoloNext ==
    \/ StartCheck(Solo)
    \/ StartSet(Solo)
    \/ StartSpawn(Solo)
    \/ StopClear(Solo)
    \/ StopJoin(Solo)
    \/ StopJoined(Solo)
    \/ \E t \in ThreadIds : ThreadExit(t)
    \/ \E t \in ThreadIds : ThreadTakeRetry(t)
    \/ \E t \in ThreadIds : ThreadSendRetry(t)
    \/ \E t \in ThreadIds : ThreadTakePrimary(t)
    \/ \E t \in ThreadIds : ThreadSendPrimary(t)
    \/ \E t \in ThreadIds : ThreadIdle(t)
    \/ LifeEnqueue
    \/ LifeTick

\* Every created thread is scheduled, and a caller inside start() goes on to
\* the end of start(); when start() or stop() is called is left open.
SoloSpec ==
    /\ Init
    /\ [][SoloNext]_vars
    /\ \A t \in ThreadIds : WF_vars(ThreadStep(t))
    /\ WF_vars(StartSet(Solo))
    /\ WF_vars(StartSpawn(Solo))

InStop(c) == callers[c].pc \in {"stop_join", "joining"}

\* message m is held by a thread that took it from a queue
InHand(m) == \E t \in ThreadIds : threads[t].msg.id = m

\* C27: stop() may be called any number of times, before start(), after
\* start() or after an earlier stop(): it raises nothing and takes no message
\* from the primary or the retry queue; a message undelivered at stop() stays
\* queued or is sent by the finishing worker, and once a later start() leaves
\* the notifier running it is dispatched.
C27_StopKeepsMessages ==
    /\ [](callers[Solo].pc # "raised")
    /\ [][InStop(Solo)' /\ callers' # callers
              => message_queue' = message_queue /\ retry_queue' = retry_queue]_vars
    /\ [][InStop(Solo) /\ callers' # callers
              => message_queue' = message_queue /\ retry_queue' = retry_queue]_vars
    /\ [](\A m \in MessageIds :
            Enqueued(m) => \/ InQueue(message_queue, m)
                           \/ InHand(m)
                           \/ Sends(m) # {})
    /\ <>[]running => \A m \in MessageIds : Enqueued(m) ~> (Sends(m) # {})

\* stop() was called before any start() and again after a worker had run; a
\* message left queued by the second stop() was sent by the worker of a
\* later start()
C27_Witness ==
    /\ running
    /\ threads[1].pc = "dead"
    /\ threads[2].pc = "loop"
    /\ \E i \in 1..Len(send_log) : send_log[i].id = MaxMessages
    /\ callers[Solo].pc = "idle"

----------------------------------------------------------------------------
(* stop() against the sleeps of the sending thread, with the clock observed *)

\* start() by the one caller, who is not inside a join
WakeStart == worker.pc \in {"none", "dead"} /\ Start

\* stop(), line 55, by the one caller; the join of line 57 then holds the
\* caller until the thread has ended
WakeStop ==
    /\ running
    /\ running' = FALSE
    /\ UNCHANGED <<message_queue, retry_queue, worker, trading, enq_log, send_log,
                   svars, cvars, kvars, tvars>>

\* the thread is in the interval sleep of line 93
InIntervalSleep == worker.pc = "send" /\ now < last_send_time + message_interval

\* the thread is in the idle sleep of line 107 or about to test line 75
InIdleSleep == worker.pc = "loop"

\* time passes; the idle sleep lasts one second, below the clock's grain, so
\* a thread that polls with running False ends before the clock moves on
WakeTick ==
    /\ ~(InIdleSleep /\ ~running)
    /\ TickTime

WakeNext ==
    \/ Enqueue
    \/ WakeStart
    \/ WakeStop
    \/ Exit
    \/ TakeRetry
    \/ SendRetry
    \/ TakePrimary
    \/ TimedSendPrimary
    \/ Idle
    \/ ClockTick
    \/ WakeTick

WakeSpec == Init /\ [][WakeNext]_vars

\* C28: once stop() has been called, a worker in its idle sleep or in its
\* interval sleep leaves the sleep and ends within about a second: the clock
\* does not move on by a grain (20 s or more) while the worker still sleeps.
C28_PromptWake ==
    [][~running /\ (InIdleSleep \/ InIntervalSleep) => now' = now]_vars

----------------------------------------------------------------------------
(* execute_strategy called by two threads at overlapping times.  The pool   *)
(* holds one instrument and the provider answers each call with one series. *)

OverlapQuotes == {QEmpty, QShort, QUp, QDown}

\* the provider answers of a call that is given series quote for the pool's
\* instrument: the sell check asks only for a held instrument
SellAnswer(positions, pool_type, quote) ==
    IF positions[pool_type].position > 0 THEN quote ELSE NoQuote

BuyAnswer(quote) ==
    IF SelectBestETF(TrailPool, <<quote>>) = "" THEN NoQuote ELSE quote

\* generate_signals as a call that is answered with series quote runs it
SignalFor(positions, pool_type, quote) ==
    LET qs == SellAnswer(positions, pool_type, quote)
    IN  GenerateSignals(positions, pool_type, TrailPool, qs,
                        IF qs \in {NoQuote, QEmpty} THEN <<quote>> ELSE <<>>,
                        IF qs \in {NoQuote, QEmpty} THEN BuyAnswer(quote) ELSE NoQuote)

\* execute_strategy, line 258: generate_signals reads the position
OverlapDecide(e, pool_type) ==
    /\ pending[e].pc = "idle"
    /\ \E quote \in OverlapQuotes :
           pending' = [pending EXCEPT ![e] =
               Exec("decided", pool_type, quote,
                    SignalFor(current_positions, pool_type, quote))]
    /\ UNCHANGED <<threads, sending_thread, callers, svars, nvars, cvars, tvars>>

\* execute_strategy, lines 260-271: the signal is acted on, on the position
\* and the ledger as they are by then
OverlapApply(e) ==
    /\ pending[e].pc = "decided"
    /\ \E out \in {ApplySignal(current_positions, transaction_history,
                               pending[e].signal, pending[e].pool_type)} :
        /\ current_positions' = out.positions
        /\ transaction_history' = out.history
        /\ result' = out.result
        /\ files' = StoreAfter(out.history)
    /\ pending' = [pending EXCEPT ![e].pc = "done"]
    /\ UNCHANGED <<call, today, returned, threads, sending_thread, callers,
                   nvars, cvars, tvars>>

OverlapNext ==
    \/ \E e \in ExecIds, pool_type \in Classes : OverlapDecide(e, pool_type)
    \/ \E e \in ExecIds : OverlapApply(e)

OverlapSpec == Init /\ [][OverlapNext]_vars

\* the whole of one call, run alone on the given position and ledger
RunAlone(state, e) ==
    ApplySignal(state.positions, state.history,
                SignalFor(state.positions, pending[e].pool_type, pending[e].quote),
                pending[e].pool_type)

\* call a run to its end, then call b
OneAfterTheOther(a, b) ==
    RunAlone(RunAlone(Outcome([c \in Classes |-> FlatPosition], <<>>, NoResult), a), b)

BothDone == \A e \in ExecIds : pending[e].pc = "done"

\* C29: two execute_strategy calls for the same class that overlap leave the
\* position and the ledger that the two calls leave when run one after the
\* other in some order.
C29_OverlapSerialized ==
    BothDone /\ pending["e1"].pool_type = pending["e2"].pool_type
        => \E a, b \in ExecIds :
              /\ a # b
              /\ current_positions = OneAfterTheOther(a, b).positions
              /\ transaction_history = OneAfterTheOther(a, b).history

----------------------------------------------------------------------------
(* format_strategy_message called on what execute_strategy returned, with   *)
(* the clock observed                                                       *)

\* line 183
PoolName(pool_type) == IF pool_type = "stable" THEN "stable" ELSE "aggressive"

\* lines 185-213: the lines of the content below the prefix
Body(strategy_result) ==
    IF strategy_result.action = "BUY"
    THEN <<strategy_result.etf_code, strategy_result.price,
           strategy_result.position, strategy_result.message>>
    ELSE IF strategy_result.action = "SELL"
    THEN <<strategy_result.etf_code, strategy_result.price,
           IF "profit_ratio" \in strategy_result.keys
           THEN strategy_result.profit_ratio ELSE <<>>,
           strategy_result.message>>
    ELSE IF strategy_result.action = "HOLD"
    THEN <<strategy_result.position, strategy_result.message>>
    ELSE <<strategy_result.action, strategy_result.message>>

\* format_strategy_message, lines 171-215: the returned text, or the KeyError;
\* system_time is datetime.now() to the second (lines 179-180)
FormatText(strategy_result, pool_type, system_time) ==
    IF FormatStrategyMessage(strategy_result, pool_type).raised
    THEN [raised |-> TRUE, prefix |-> 0, pool_name |-> "", body |-> <<>>]
    ELSE [raised |-> FALSE, prefix |-> system_time,
          pool_name |-> PoolName(pool_type), body |-> Body(strategy_result)]

\* one format_strategy_message(result, pool_type) call
FormatCall(pool_type) ==
    /\ result.status = "success"
    /\ returned' = <<FormatText(result, pool_type, now)>>
    /\ call' = [NoCall EXCEPT !.op = "format", !.pool_type = pool_type]
    /\ UNCHANGED <<current_positions, transaction_history, result, today, files,
                   nvars, cvars, kvars, tvars>>

FormatNext ==
    \/ \E pool_type \in Classes : StoreExecute(pool_type)
    \/ \E pool_type \in Classes : FormatCall(pool_type)
    \/ TickTime

FormatSpec == Init /\ [][FormatNext]_vars

\* C30: two format_strategy_message calls with the same decision and class
\* return the same text, whatever the clock shows at each call, and a call
\* changes no state of the strategy or the notifier.
C30_FormatDeterministic ==
    [][call'.op = "format"
          => /\ (call.op = "format" /\ call'.pool_type = call.pool_type)
                    => returned' = returned
             /\ UNCHANGED <<current_positions, transaction_history, result,
                            files, nvars, last_send_time>>]_vars

----------------------------------------------------------------------------
(* _select_best_etf on any pool and any provider answers *)

SelectQuotes == Quotes \cup {QHigh, QFlat}

\* one _select_best_etf(etf_pool, params) call; returned holds its inputs
\* and the instrument it chose
SelectCall ==
    \E pool \in PoolChoices : \E q \in [1..Len(pool) -> SelectQuotes] :
        /\ returned' = <<[etf_pool |-> pool, quotes |-> q,
                          best |-> SelectBestETF(pool, q)]>>
        /\ call' = [NoCall EXCEPT !.op = "select"]
        /\ UNCHANGED <<current_positions, transaction_history, result, today, files,
                       nvars, cvars, kvars, tvars>>

SelectNext == SelectCall

SelectSpec == Init /\ [][SelectNext]_vars

\* the pool entries whose trend strength is a number: the series is not empty
\* and is long enough for the 20-day average
Rated(sel) == {i \in 1..Len(sel.etf_pool) : Len(sel.quotes[i]) >= 20}

\* (price - ma) / ma of entry i is below that of entry j
Weaker(sel, i, j) ==
    Last(sel.quotes[i]) * MASum(sel.quotes[j], 20, Len(sel.quotes[j]))
        < Last(sel.quotes[j]) * MASum(sel.quotes[i], 20, Len(sel.quotes[i]))

\* C31: among the pool instruments with quote data the candidate chosen is the
\* one with the greatest trend strength, and of several with the greatest
\* strength the one earliest in the pool.
C31_StrongestChosen ==
    \A k \in 1..Len(returned) :
        LET sel == returned[k]
        IN  call.op = "select" /\ Rated(sel) # {}
                => \E i \in Rated(sel) :
                      /\ sel.best = sel.etf_pool[i]
                      /\ \A j \in Rated(sel) : ~Weaker(sel, i, j)
                      /\ \A j \in Rated(sel) : j < i => Weaker(sel, j, i)

----------------------------------------------------------------------------
(* The order of retries *)

\* the index in send_log of the failed primary send that put m on the retry queue
EnteredRetry(m) ==
    CHOOSE i \in 1..Len(send_log) : send_log[i].id = m /\ FailedInHours(i)

\* retry sends are made in the order the messages entered the retry queue
RetryFifo ==
    \A i, j \in 1..Len(send_log) :
        (/\ send_log[i].source = "retry"
         /\ send_log[j].source = "retry"
         /\ i < j)
            => EnteredRetry(send_log[i].id) < EnteredRetry(send_log[j].id)

\* C32 as stated: whenever the retry queue is non-empty inside trading hours
\* the next message sent is the oldest retry message, ahead of every primary
\* message; retries are sent in the order they entered the retry queue.
C32_RetryAlwaysFirst ==
    /\ [][retry_queue # <<>> /\ trading /\ Len(send_log') > Len(send_log)
              => send_log'[Len(send_log')].source = "retry"]_vars
    /\ []RetryFifo

\* C32: whenever the worker, at the top of its loop, takes a message while the
\* retry queue is non-empty inside trading hours, it takes the oldest retry
\* message, ahead of every primary message; retries are sent in the order they
\* entered the retry queue.  A primary message the worker already holds is
\* sent first.
C32_RetryFirstAtLoop ==
    /\ [][(/\ worker.pc = "loop"
           /\ worker'.pc \in {"send", "retry_send"}
           /\ retry_queue # <<>> /\ trading)
              => worker' = [pc |-> "retry_send", msg |-> Head(retry_queue)]]_vars
    /\ []RetryFifo

\* a retry has just been sent while a primary message was waiting
C32_Witness ==
    /\ Len(send_log) >= 2
    /\ send_log[Len(send_log)].source = "retry"
    /\ message_queue # <<>>
    /\ worker.pc = "loop"

----------------------------------------------------------------------------
(* The trailing stop and the two classes *)

\* the prices of the BUY transactions of the instrument recorded by one class
ClassBuyPrices(history, etf_code, pool_type) ==
    {history[i].price : i \in {j \in 1..Len(history) :
        /\ history[j].etf_code = etf_code
        /\ history[j].action = "BUY"
        /\ history[j].strategy_type = pool_type}}

\* C33: the trailing-stop decision for class c and its held instrument rests
\* on the BUY transactions of class c only: with neither the fixed stop-loss
\* nor the breakdown holding, and the other class having bought the same
\* instrument at a higher price, the evaluation decides SELL by trailing stop
\* exactly when the highest BUY price of class c reduced by
\* tracking_stop_ratio exceeds the close.
C33_TrailingOwnClassOnly ==
    (/\ SellChecked /\ ~StopCond /\ ~BreakCond
     /\ ClassBuyPrices(call.history, CallPos.etf_code, call.pool_type) # {}
     /\ SetMax(BuyPrices(call.history, CallPos.etf_code))
            > SetMax(ClassBuyPrices(call.history, CallPos.etf_code, call.pool_type)))
        => /\ result.status = "success"
           /\ (result.action = "SELL" /\ result.message = "trailing stop")
                <=> SetMax(ClassBuyPrices(call.history, CallPos.etf_code,
                                          call.pool_type))
                        * (100 - CallParams.tracking_stop_ratio)
                    > Last(call.qs) * 100

----------------------------------------------------------------------------
(* _execute_sell on the signals that _check_sell_signal builds: the dict     *)
(* literals of lines 216-223, 228-235 and 241-248, for a position bought at  *)
(* 10.00 and series that end at 8.40 (fixed stop-loss), at 9.00 below the    *)
(* average (breakdown) and at 9.00 on the average (trailing stop).           *)

QSlip == Rep(21, 1000) \o <<900>>
QSag  == Rep(22, 900)

ClosingQuotes == {QDown, QSlip, QSag}

\* one _execute_sell(signal, pool_type) call on a HELD portfolio, signal being
\* the dict that lines 214-248 build for the close series quote_df
SellAs(pool_type) ==
    \E quote_df \in ClosingQuotes :
    \E signal \in {SellDecision(current_positions[pool_type], transaction_history,
                                current_positions[pool_type].etf_code,
                                STRATEGY_PARAMS[pool_type], quote_df)} :
    \E out \in {ExecuteSell(current_positions, transaction_history, signal, pool_type)} :
        /\ current_positions[pool_type].position > 0
        /\ signal.action = "SELL"
        /\ Len(out.history) <= MaxLedger
        /\ current_positions' = out.positions
        /\ transaction_history' = out.history
        /\ files' = StoreAfter(out.history)
        /\ result' = out.result
        /\ call' = [NoCall EXCEPT !.op = "sell", !.pool_type = pool_type,
                                  !.positions = current_positions,
                                  !.history = transaction_history,
                                  !.qs = quote_df,
                                  !.arg = Arg(signal.etf_code, 0, 0)]
        /\ returned' = <<>>
        /\ UNCHANGED <<today, nvars, cvars, kvars, tvars>>

\* one execute_strategy(pool_type) call of a FLAT portfolio, the pool being
\* TrailPool
SellBuy(pool_type) ==
    /\ current_positions[pool_type].position = 0
    /\ TrailExecute(pool_type)

SellNext ==
    \/ \E pool_type \in Classes : SellBuy(pool_type)
    \/ \E pool_type \in Classes : SellAs(pool_type)
    \/ NextDate

SellSpec == Init /\ [][SellNext]_vars

\* C34: every SELL transaction appended to the ledger records the realized
\* profit ratio (sell price - average entry price) / average entry price of
\* the position it closes, whichever of the three rationales (fixed
\* stop-loss, MA breakdown, trailing stop) the signal carries.
C34_SellRecordsProfitRatio ==
    (/\ call.op = "sell"
     /\ Len(Appended) = 1
     /\ Appended[1].action = "SELL")
        => /\ Appended[1].reason \in {"fixed stop-loss", "MA breakdown", "trailing stop"}
           /\ Appended[1].profit_ratio[1] * CallPos.avg_price
                = (Appended[1].price - CallPos.avg_price) * Appended[1].profit_ratio[2]

----------------------------------------------------------------------------
(* Rotation *)

\* the latest call evaluated a portfolio HELD in one instrument and got a BUY
\* signal for another one
RotationCall ==
    /\ call.op = "execute" /\ HeldCall
    /\ call.qb # NoQuote
    /\ call.best # CallPos.etf_code
    /\ CheckBuySignal(call.best, CallParams, call.qb).action = "BUY"

\* C35: a rotation from X to Y appends a SELL for X and then a BUY for Y and
\* leaves the portfolio HELD in Y; or else the SELL is refused with an error
\* result, and then nothing is appended and the portfolio stays in X.
C35_RotationSellsThenBuys ==
    RotationCall
        => \/ /\ result.status = "success" /\ result.action = "BUY"
              /\ Len(Appended) = 2
              /\ Appended[1].action = "SELL"
              /\ Appended[1].etf_code = CallPos.etf_code
              /\ Appended[2].action = "BUY"
              /\ Appended[2].etf_code = call.best
              /\ current_positions[call.pool_type].etf_code = call.best
              /\ current_positions[call.pool_type].position > 0
           \/ /\ result.status = "error" /\ result.action = "SELL"
              /\ Appended = <<>>
              /\ current_positions = call.positions

----------------------------------------------------------------------------
(* BUY and SELL within one class *)

\* the transactions of one class, in ledger order
ClassLedger(history, pool_type) ==
    SelectSeq(history, LAMBDA t : t.strategy_type = pool_type)

\* C36: within a class the ledger alternates BUY, SELL, BUY, ...: no two BUYs
\* without a SELL between them; and the evaluation of a HELD portfolio appends
\* no BUY of the held instrument and, while the portfolio stays in that
\* instrument, leaves its average entry price and stop-loss as they were.
C36_NoSecondBuy ==
    /\ \A c \in Classes :
         \A i \in 1..Len(ClassLedger(transaction_history, c)) :
            ClassLedger(transaction_history, c)[i].action
                = IF i % 2 = 1 THEN "BUY" ELSE "SELL"
    /\ (call.op = "execute" /\ HeldCall)
         => /\ \A i \in 1..Len(Appended) :
                 ~(Appended[i].action = "BUY" /\ Appended[i].etf_code = CallPos.etf_code)
            /\ (current_positions[call.pool_type].etf_code = CallPos.etf_code
                  => current_positions[call.pool_type] = CallPos)

----------------------------------------------------------------------------
(* The breakdown condition as a function of the close series, the window    *)
(* and the confirmation length: every series of up to MaxSeries closes over *)
(* three prices with short windows, and the provider's series with the      *)
(* window of STRATEGY_PARAMS.                                               *)

MaxSeries == 4
MaxConfirm == 3

ClosePrices == {900, 1000, 1100}

ShortSeries == UNION {[1..n -> ClosePrices] : n \in 1..MaxSeries}

ShortWindows == {2, 3}

\* the (series, ma_period) pairs the condition is evaluated on
BreakdownInputs ==
    (ShortSeries \X ShortWindows)
        \cup ((SelectQuotes \cup ClosingQuotes) \ {QEmpty})
                \X {STRATEGY_PARAMS[c].ma_period : c \in Classes}

\* lines 226-227 evaluated for one series and one pair of parameters.  The
\* condition reads nothing but its arguments, so one evaluation per behaviour
\* reaches every outcome.
BreakdownCall ==
    \E in \in BreakdownInputs : \E confirm_days \in 1..MaxConfirm :
        LET params == [ma_period |-> in[2], confirm_days |-> confirm_days]
        IN  /\ call.op = ""
            /\ returned' = <<[quote_df |-> in[1], params |-> params,
                              breakdown |-> MABreakdown(params, in[1])]>>
            /\ call' = [NoCall EXCEPT !.op = "breakdown"]
            /\ UNCHANGED <<current_positions, transaction_history, result, today,
                           files, nvars, cvars, kvars, tvars>>

BreakdownNext == BreakdownCall

BreakdownSpec == Init /\ [][BreakdownNext]_vars

\* the current close is below the latest moving average (False on NaN)
CloseBelowMA(params, quote_df) ==
    /\ MADefined(quote_df, params.ma_period, Len(quote_df))
    /\ Last(quote_df) * params.ma_period
            < MASum(quote_df, params.ma_period, Len(quote_df))

\* C37: for every close series and every confirm_days >= 1 the breakdown
\* condition of the code holds exactly when the current close is below the
\* latest moving average: the confirmation window changes nothing.
C37_WindowChangesNothing ==
    call.op = "breakdown"
        => (returned[1].breakdown
                <=> CloseBelowMA(returned[1].params, returned[1].quote_df))

\* a breakdown with a confirmation window in which a close lies at or above
\* the moving average
C37_Witness ==
    /\ call.op = "breakdown"
    /\ returned[1].breakdown
    /\ returned[1].params.confirm_days >= 2
    /\ LET q == returned[1].quote_df
           w == returned[1].params.ma_period
       IN  /\ Len(q) >= returned[1].params.confirm_days
           /\ \E i \in (Len(q) - returned[1].params.confirm_days + 1)..Len(q) :
                 q[i] * w >= MASum(q, w, Len(q))

----------------------------------------------------------------------------
(* The held instrument and the ledger *)

\* C38: whenever a class holds an instrument, the ledger contains a BUY of
\* that instrument: the max() of line 238 is taken over a non-empty list.
C38_HeldHasBuy ==
    \A c \in Classes :
        current_positions[c].position > 0
            => BuyPrices(transaction_history, current_positions[c].etf_code) # {}

\* a class bought A with every position flat and the ledger not empty, that
\* is after a restart, and holds it
C38_Witness ==
    /\ call.op = "execute"
    /\ \A c \in Classes : call.positions[c].position = 0
    /\ call.history # <<>>
    /\ current_positions[call.pool_type].position > 0
    /\ Len(transaction_history) = Len(call.history) + 1

----------------------------------------------------------------------------
(* The task that waits for the queues and stops *)

\* stop() has returned to the task body that waited for both queues (the
\* exception handler enqueues an error report before its own stop())
StoppedAfterWait ==
    /\ task_pc = At("done", "")
    /\ \A i \in 1..Len(enq_log) : enq_log[i].kind # "error"

\* C39: when stop() returns to the task that waited until it saw both queues
\* empty, both queues are empty and every enqueued message has been sent
\* successfully or was dropped after a send that failed outside trading hours.
C39_DrainedAtStop ==
    StoppedAfterWait
        => /\ message_queue = <<>>
           /\ retry_queue = <<>>
           /\ \A i \in 1..Len(enq_log) :
                \/ OkSends(enq_log[i].id) # {}
                \/ \E j \in Sends(enq_log[i].id) : FailedOffHours(j)

====
